---- MODULE Spec2Model ----
(***************************************************************************)
(* Model of watcher.py: the blue/green log watcher.                        *)
(*                                                                         *)
(*   handle_line  pool-flip detection, rolling 5xx window, alert cooldown  *)
(*   post_slack   the notification sink (may fail; failure is absorbed)    *)
(*   follow/main  the file follower and the loop that feeds handle_line    *)
(*                                                                         *)
(* Time is datetime.utcnow() in whole seconds.  A log line is the record   *)
(* of the tokens LOG_RE looks for.                                         *)
(***************************************************************************)
EXTENDS Integers, Sequences, FiniteSets, TLC

VARIABLES
    MAINTENANCE_MODE,          \* configuration, fixed at start-up
    SLACK_WEBHOOK,             \* configuration: TRUE iff a webhook URL is set
    rolling,                   \* deque(maxlen=WINDOW_SIZE) of 0/1
    last_seen_pool,
    last_failover_alert_ts,
    last_error_rate_alert_ts,
    clock,                     \* what datetime.utcnow() returns
    cur,                       \* <<line>> the last step handed to handle_line, else <<>>
    out,                       \* what that handle_line call emitted
    seenPool,                  \* history: pool of the latest matched line
    knownPool,                 \* history: the latest pool that was a name, not "-"
    lastPost,                  \* history: per kind, time of the latest post_slack call
    hist,                      \* history: the error flags of the matched lines, in order
    errors,                    \* history: failing requests logged so far
    path,                      \* the inode LOG_PATH names, NoFile when it names none
    files,                     \* inode -> content, a sequence of written chunks
    inodes,                    \* inodes handed out so far
    fpc,                       \* where follow() stands: open, waiting, poll, sleeping, yield
    fd,                        \* the inode of follow's open file, NoFile when closed
    pos,                       \* file.tell(), in chunks
    initial_inode,
    yielded,                   \* the value follow() has handed to main
    got,                       \* history: <<inode, index>> of every chunk yielded
                               \*   since the file was opened
    newFiles,                  \* history: inodes put at LOG_PATH under the open file
    atOpen                     \* history: the length the open file had when it was
                               \*   opened, Cut once it was cut after that

detector == <<rolling, last_seen_pool, last_failover_alert_ts, last_error_rate_alert_ts>>
config   == <<MAINTENANCE_MODE, SLACK_WEBHOOK>>
filesys  == <<path, files, inodes>>
follower == <<fpc, fd, pos, initial_inode, yielded>>
tailing  == <<path, files, inodes, fpc, fd, pos, initial_inode, yielded, got, newFiles,
              atOpen>>
vars     == <<MAINTENANCE_MODE, SLACK_WEBHOOK, rolling, last_seen_pool,
              last_failover_alert_ts, last_error_rate_alert_ts, clock,
              cur, out, seenPool, knownPool, lastPost, hist, errors,
              path, files, inodes, fpc, fd, pos, initial_inode, yielded, got, newFiles,
              atOpen>>

----------------------------------------------------------------------------
(* Configuration values and bounds *)

\* WINDOW_SIZE, ALERT_COOLDOWN_SEC and ERROR_RATE_THRESHOLD come from the
\* environment; the model runs with a small configured value of each.
WINDOW_SIZE == 11
ALERT_COOLDOWN_SEC == 2
ERROR_RATE_THRESHOLD == 10
\* the literal of "if len(rolling) >= 10"
MIN_SAMPLES == 10

\* None for a timestamp (timestamps are naturals)
NoTs == -1
\* None for last_seen_pool
None == "None"

\* the clock runs from 0 to MaxTime
MaxTime == 2
\* matched lines handled in the window specification
MaxLines == 13
\* failing requests in the traffic of the timed specification
MaxErrors == 2
\* files ever created at LOG_PATH
MaxInodes == 2
\* chunks a file holds at most
MaxFileLen == 2

Kinds == {"failover", "error_rate"}

----------------------------------------------------------------------------
(* Log lines *)

\* A line is the record of the tokens LOG_RE looks for:
\*   status           the digits after "status=", -1 when that token is missing
\*   pool             the text after "pool=", "" when that token is missing
\*   upstream_status  the comma-separated codes after "upstream_status=",
\*                    <<>> for the placeholder "-"
\*   rest             TRUE iff release, upstream_addr, request_time and
\*                    upstream_response_time follow in order and well-formed
MkLine(s, p, u, r) == [status |-> s, pool |-> p, upstream_status |-> u, rest |-> r]

Pools == {"blue", "green"}
\* what nginx logs for a variable that has no value
Placeholder == "-"
Statuses == {200, 500}
SingleUpstream == {<<>>, <<200>>, <<502>>}
ListUpstream == {<<200, 502>>, <<502, 200>>}

Garbage == {MkLine(-1, "", <<>>, FALSE), MkLine(200, "", <<200>>, TRUE)}

\* lines whose upstream_status is one code or the placeholder
PlainLines == {MkLine(s, p, u, TRUE) : s \in Statuses, p \in Pools, u \in SingleUpstream}

\* the traffic of the timed specification: per pool a served request and a
\* failing one, and a line that is no access-log line
TimedOk == {MkLine(200, p, <<200>>, TRUE) : p \in Pools} \cup Garbage
TimedFailing == {MkLine(200, p, <<502>>, TRUE) : p \in Pools}
TimedLines == TimedOk \cup TimedFailing

\* the traffic of the window specification: one pool, every outcome
WindowLines == {MkLine(200, "blue", <<200>>, TRUE), MkLine(200, "blue", <<502>>, TRUE),
                MkLine(500, "blue", <<>>, TRUE), MkLine(200, "", <<200>>, TRUE)}

\* a status token of more digits than int() converts (the interpreter's
\* limit on the length of a digit string): LOG_RE's \d+ matches it, line 70
\* raises ValueError on it
Overlong == 1000000

\* the traffic of the pool specification: served requests of either pool,
\* and served requests whose pool variable was empty
PoolLines == {MkLine(200, p, <<200>>, TRUE) : p \in Pools \cup {Placeholder}}

\* the traffic of the upstream specification: one pool, every status with
\* every form of upstream_status (none, one code, the codes of a retried request)
UpstreamLines == {MkLine(s, "blue", u, TRUE) :
                     s \in Statuses, u \in SingleUpstream \cup ListUpstream}

\* every line of the model
Lines == PlainLines \cup Garbage
         \cup {MkLine(s, p, u, TRUE) : s \in Statuses, p \in Pools, u \in ListUpstream}
         \cup {MkLine(200, Placeholder, <<200>>, TRUE)}

\* what a line says of its request: a code in [500,600) as status or as the
\* one upstream code makes it a failing request (flag 1)
Is5xx(code) == 500 <= code /\ code < 600
PlainFlag(line) ==
    IF Is5xx(line.status)
       \/ (Len(line.upstream_status) = 1 /\ Is5xx(line.upstream_status[1]))
    THEN 1 ELSE 0

\* LOG_RE.match(line): matched iff every token is there
LOG_RE(line) ==
    [matched |-> line.status >= 0 /\ line.pool # "" /\ line.rest,
     status |-> line.status,
     pool |-> line.pool,
     upstream_status |-> line.upstream_status]

----------------------------------------------------------------------------
(* Files *)

\* no inode: LOG_PATH names no file, or follow() holds no open file
NoFile == 0
\* for atOpen: the open file was cut, what was in it at the open is gone
Cut == -1

\* A file is a sequence of chunks, one per write: the text written (the lines
\* whose text it holds) and whether a newline ends it.  Offsets and sizes
\* count chunks.
MkChunk(t, n) == [txt |-> t, nl |-> n]
NoChunk == MkChunk(<<>>, FALSE)

\* what the proxy writes while a file is followed
FollowLines == {MkLine(200, "blue", <<200>>, TRUE)}
\* what another writer leaves in the file: a line without the pool token
NoiseLines == {MkLine(200, "", <<200>>, TRUE)}
\* a line handle_line cannot get through
BadLines == {MkLine(Overlong, "blue", <<200>>, TRUE)}

\* file.readline() at offset p of content c: up to and including the first
\* newline, or up to end-of-file when there is none; "" at end-of-file
readline_end(c, p) ==
    IF \E j \in (p + 1)..Len(c) : c[j].nl
    THEN CHOOSE j \in (p + 1)..Len(c) : c[j].nl /\ \A k \in (p + 1)..(j - 1) : ~c[k].nl
    ELSE Len(c)

RECURSIVE text_of(_, _, _)
text_of(c, from, to) ==
    IF from > to THEN <<>> ELSE c[from].txt \o text_of(c, from + 1, to)

readline(c, p) ==
    LET e == readline_end(c, p) IN
    [end |-> e, value |-> MkChunk(text_of(c, p + 1, e), e > p /\ c[e].nl)]

\* a line written in two steps: its text up to and with the pool token, then
\* the text from the release token on
Front(line) == MkLine(line.status, line.pool, <<>>, FALSE)
Back(line) == MkLine(-1, "", line.upstream_status, line.rest)

\* the tokens of two pieces of text read end to end
join(a, b) ==
    MkLine(IF a.status >= 0 THEN a.status ELSE b.status,
           IF a.pool # "" THEN a.pool ELSE b.pool,
           a.upstream_status \o b.upstream_status,
           a.rest \/ b.rest)

RECURSIVE joined(_)
joined(t) == IF Len(t) = 1 THEN t[1] ELSE join(t[1], joined(Tail(t)))

\* line.strip() as LOG_RE sees it: the tokens of the text read, without the
\* newline
stripped(y) ==
    IF y.txt = <<>> THEN MkLine(-1, "", <<>>, FALSE) ELSE joined(y.txt)

----------------------------------------------------------------------------
(* post_slack *)

NoPost == [called |-> FALSE, failed |-> FALSE, raised |-> FALSE]

\* faulty variant: the sink's exception is not caught
post_slack_uncaught(webhook, sinkOk) ==
    [called |-> TRUE, failed |-> webhook /\ ~sinkOk, raised |-> webhook /\ ~sinkOk]

\* post_slack(text): with a webhook, requests.post inside try/except Exception
\* (a failure is printed); without one, the alert is printed.  Never raises.
post_slack(webhook, sinkOk) ==
    [called |-> TRUE, failed |-> webhook /\ ~sinkOk, raised |-> FALSE]

----------------------------------------------------------------------------
(* handle_line, piece by piece *)

\* faulty variant: strict comparison
cooldown_strict(now, last_ts) ==
    IF last_ts # NoTs THEN now - last_ts > ALERT_COOLDOWN_SEC ELSE TRUE

\* (now - last_ts).total_seconds() >= ALERT_COOLDOWN_SEC if last_ts else True
cooldown_time_elapsed(now, last_ts) ==
    IF last_ts # NoTs THEN now - last_ts >= ALERT_COOLDOWN_SEC ELSE TRUE

\* int(upstream_status) if upstream_status.isdigit() and upstream_status != '-' else 0
us_value(upstream_status) ==
    IF Len(upstream_status) = 1 THEN upstream_status[1] ELSE 0

\* 500 <= us < 600 or 500 <= status < 600
is_error(status, us) ==
    IF (500 <= us /\ us < 600) \/ (500 <= status /\ status < 600) THEN 1 ELSE 0

\* faulty variant: a full deque drops the new item
rolling_append_keep_old(r, x) ==
    IF Len(r) < WINDOW_SIZE THEN Append(r, x) ELSE r

\* rolling.append(x) on deque(maxlen=WINDOW_SIZE): the oldest falls off
rolling_append(r, x) ==
    IF Len(r) < WINDOW_SIZE THEN Append(r, x) ELSE Append(Tail(r), x)

RECURSIVE sum(_)
\* sum(rolling)
sum(r) == IF r = <<>> THEN 0 ELSE Head(r) + sum(Tail(r))

\* faulty variant: the rate over the configured capacity, not the current length
error_rate_of_capacity(r) == [count |-> sum(r), total |-> WINDOW_SIZE]

\* error_count = sum(rolling); total = len(rolling);
\* error_rate = (error_count / total) * 100.0, kept as the fraction count/total
error_rate(r) == [count |-> sum(r), total |-> Len(r)]

\* error_rate >= ERROR_RATE_THRESHOLD
breached(rate) == rate.count * 100 >= ERROR_RATE_THRESHOLD * rate.total

\* faulty variant: a shorter warm-up
evaluated_early(r) == Len(r) >= MIN_SAMPLES - 1

\* len(rolling) >= 10
evaluated(r) == Len(r) >= MIN_SAMPLES

\* faulty variant: maintenance mode is ignored
alerts_enabled_always == TRUE

\* ~MAINTENANCE_MODE: the else-branch of line 81, the elif of line 123
alerts_enabled == ~MAINTENANCE_MODE

\* faulty variant: a flip is reported on the very first line too
flip_detected_unseeded(pool) == pool # last_seen_pool

\* "if last_seen_pool is None: ... elif pool != last_seen_pool:"
flip_detected(pool) == last_seen_pool # None /\ pool # last_seen_pool

\* faulty variant: the tracked pool moves only when the alert went out
next_seen_pool_if_alerted(pool, flip, fired) ==
    IF last_seen_pool = None THEN pool
    ELSE IF flip /\ fired THEN pool ELSE last_seen_pool

\* last_seen_pool after the flip check: seeded by the first line, moved by a flip
next_seen_pool(pool, flip, fired) ==
    IF last_seen_pool = None THEN pool
    ELSE IF flip THEN pool ELSE last_seen_pool

\* faulty variant: the timestamp is set by every line, alert or not
next_alert_ts_every_line(last_ts, now, fired) == now

\* "last_..._alert_ts = now" after post_slack, else left alone
next_alert_ts(last_ts, now, fired) == IF fired THEN now ELSE last_ts

\* what one handle_line call emits:
\*   posts    kinds post_slack was called for
\*   failed   kinds whose sink call failed (post_slack printed the failure)
\*   notices  suppression notices printed
\*   rate     the error rate compared against the threshold (NoRate: not compared)
\*   flag     the flag appended to rolling
\*   raised   TRUE iff the call ended in an exception
NoRate == [count |-> 0, total |-> 0]
NoOut == [posts |-> {}, failed |-> {}, notices |-> {}, rate |-> NoRate,
          flag |-> 0, raised |-> FALSE]

\* faulty variant: a line that does not match is still counted as a request
unmatched_counted ==
    [rolling |-> rolling_append(rolling, 0), last_seen_pool |-> last_seen_pool,
     last_failover_alert_ts |-> last_failover_alert_ts,
     last_error_rate_alert_ts |-> last_error_rate_alert_ts, out |-> NoOut]

\* "if not m: return"
unmatched ==
    [rolling |-> rolling, last_seen_pool |-> last_seen_pool,
     last_failover_alert_ts |-> last_failover_alert_ts,
     last_error_rate_alert_ts |-> last_error_rate_alert_ts, out |-> NoOut]

\* status = int(m.group("status")): ValueError on an overlong digit string
int_raises(status) == status >= Overlong

\* the exception leaves handle_line at line 70, before any state is touched
raised_at_int ==
    [rolling |-> rolling, last_seen_pool |-> last_seen_pool,
     last_failover_alert_ts |-> last_failover_alert_ts,
     last_error_rate_alert_ts |-> last_error_rate_alert_ts,
     out |-> [posts |-> {}, failed |-> {}, notices |-> {}, rate |-> NoRate,
              flag |-> 0, raised |-> TRUE]]

\* handle_line(line) at time now; sinkOk is whether the sink accepts what is
\* posted.  The result is the detector state and the output the call leaves.
handle_line(line, now, sinkOk) ==
    LET m == LOG_RE(line) IN
    IF ~m.matched THEN unmatched
    ELSE IF int_raises(m.status) THEN raised_at_int
    ELSE
    LET pool     == m.pool
        \* 1. pool flip
        flip     == flip_detected(pool)
        fElapsed == cooldown_time_elapsed(now, last_failover_alert_ts)
        fFire    == flip /\ alerts_enabled /\ fElapsed
        p1       == IF fFire THEN post_slack(SLACK_WEBHOOK, sinkOk) ELSE NoPost
        fNotes   == IF flip /\ ~alerts_enabled THEN {"failover_maintenance"}
                    ELSE IF flip /\ ~fElapsed THEN {"failover_cooldown"} ELSE {}
        fts      == next_alert_ts(last_failover_alert_ts, now, fFire)
        seen     == next_seen_pool(pool, flip, fFire)
        \* 2. error rate
        flag     == is_error(m.status, us_value(m.upstream_status))
        r        == rolling_append(rolling, flag)
        eval     == evaluated(r)
        rate     == IF eval THEN error_rate(r) ELSE NoRate
        over     == eval /\ breached(rate)
        eElapsed == cooldown_time_elapsed(now, last_error_rate_alert_ts)
        eFire    == over /\ alerts_enabled /\ eElapsed
        p2       == IF eFire THEN post_slack(SLACK_WEBHOOK, sinkOk) ELSE NoPost
        eNotes   == IF over /\ ~alerts_enabled THEN {"error_rate_maintenance"}
                    ELSE IF over /\ ~eElapsed THEN {"error_rate_cooldown"} ELSE {}
        ets      == next_alert_ts(last_error_rate_alert_ts, now, eFire)
    IN
    IF p1.raised THEN
        \* the exception leaves handle_line at line 92
        [rolling |-> rolling, last_seen_pool |-> last_seen_pool,
         last_failover_alert_ts |-> last_failover_alert_ts,
         last_error_rate_alert_ts |-> last_error_rate_alert_ts,
         out |-> [posts |-> {"failover"}, failed |-> {"failover"}, notices |-> {},
                  rate |-> NoRate, flag |-> 0, raised |-> TRUE]]
    ELSE IF p2.raised THEN
        \* the exception leaves handle_line at line 130
        [rolling |-> r, last_seen_pool |-> seen,
         last_failover_alert_ts |-> fts,
         last_error_rate_alert_ts |-> last_error_rate_alert_ts,
         out |-> [posts |-> (IF fFire THEN {"failover"} ELSE {}) \cup {"error_rate"},
                  failed |-> (IF p1.failed THEN {"failover"} ELSE {}) \cup {"error_rate"},
                  notices |-> fNotes, rate |-> rate, flag |-> flag, raised |-> TRUE]]
    ELSE
        [rolling |-> r, last_seen_pool |-> seen,
         last_failover_alert_ts |-> fts,
         last_error_rate_alert_ts |-> ets,
         out |-> [posts |-> (IF fFire THEN {"failover"} ELSE {})
                            \cup (IF eFire THEN {"error_rate"} ELSE {}),
                  failed |-> (IF p1.failed THEN {"failover"} ELSE {})
                             \cup (IF p2.failed THEN {"error_rate"} ELSE {}),
                  notices |-> fNotes \cup eNotes,
                  rate |-> rate, flag |-> flag, raised |-> FALSE]]

----------------------------------------------------------------------------
(* The detector driven line by line *)

NoPrior == [k \in Kinds |-> NoTs]

\* out, with the history as it stood before the call
Emitted(o) ==
    [posts |-> o.posts, failed |-> o.failed, notices |-> o.notices, rate |-> o.rate,
     flag |-> o.flag, raised |-> o.raised,
     prior |-> lastPost, prevPool |-> seenPool, known |-> knownPool]

Idle == [posts |-> {}, failed |-> {}, notices |-> {}, rate |-> NoRate,
         flag |-> 0, raised |-> FALSE,
         prior |-> NoPrior, prevPool |-> None, known |-> None]

\* module level, lines 35-42, and the history
InitDetector ==
    /\ rolling = <<>>
    /\ last_seen_pool = None
    /\ last_failover_alert_ts = NoTs
    /\ last_error_rate_alert_ts = NoTs
    /\ clock = 0
    /\ cur = <<>>
    /\ out = Idle
    /\ seenPool = None
    /\ knownPool = None
    /\ lastPost = NoPrior
    /\ hist = <<>>
    /\ errors = 0

\* follow() not started, no file
NoTailing ==
    /\ path = NoFile
    /\ files = [i \in 1..MaxInodes |-> <<>>]
    /\ inodes = 0
    /\ fpc = "open"
    /\ fd = NoFile
    /\ pos = 0
    /\ initial_inode = NoFile
    /\ yielded = NoChunk
    /\ got = {}
    /\ newFiles = {}
    /\ atOpen = 0

\* one call handle_line(line) at the current time
Call(line, sinkOk) ==
    \E res \in {handle_line(line, clock, sinkOk)} :
        /\ rolling' = res.rolling
        /\ last_seen_pool' = res.last_seen_pool
        /\ last_failover_alert_ts' = res.last_failover_alert_ts
        /\ last_error_rate_alert_ts' = res.last_error_rate_alert_ts
        /\ cur' = <<line>>
        /\ out' = Emitted(res.out)
        /\ seenPool' = IF LOG_RE(line).matched THEN line.pool ELSE seenPool
        /\ knownPool' = IF LOG_RE(line).matched /\ line.pool # Placeholder
                        THEN line.pool ELSE knownPool
        /\ lastPost' = [k \in Kinds |-> IF k \in res.out.posts THEN clock ELSE lastPost[k]]
        /\ UNCHANGED <<config, clock>>

\* time passes between two lines
Tick ==
    /\ clock < MaxTime
    /\ clock' = clock + 1
    /\ cur' = <<>>
    /\ out' = Idle
    /\ UNCHANGED <<config, detector, seenPool, knownPool, lastPost, hist, errors, tailing>>

\* main's loop body on a line of the timed traffic
Handle ==
    \E line \in TimedLines : \E sinkOk \in BOOLEAN :
        /\ line \in TimedFailing => errors < MaxErrors
        /\ Call(line, sinkOk)
        /\ errors' = IF line \in TimedFailing THEN errors + 1 ELSE errors
        /\ UNCHANGED <<hist, tailing>>

Init ==
    /\ MAINTENANCE_MODE \in BOOLEAN
    /\ SLACK_WEBHOOK = TRUE
    /\ InitDetector
    /\ NoTailing

Next == Tick \/ Handle

Spec == Init /\ [][Next]_vars

----------------------------------------------------------------------------
(* The detector on a bounded run of lines, the clock standing still *)

HandleCounted ==
    \E line \in WindowLines : \E sinkOk \in BOOLEAN :
        /\ Len(hist) < MaxLines
        /\ Call(line, sinkOk)
        /\ hist' = IF LOG_RE(line).matched THEN Append(hist, PlainFlag(line)) ELSE hist
        /\ UNCHANGED <<errors, tailing>>

InitWindow ==
    /\ MAINTENANCE_MODE \in BOOLEAN
    /\ SLACK_WEBHOOK \in BOOLEAN
    /\ InitDetector
    /\ NoTailing

NextWindow == HandleCounted

SpecWindow == InitWindow /\ [][NextWindow]_vars

----------------------------------------------------------------------------
(* The detector on traffic in which the pool is sometimes not known *)

HandlePool ==
    \E line \in PoolLines : \E sinkOk \in BOOLEAN :
        /\ Len(hist) < MaxLines
        /\ Call(line, sinkOk)
        /\ hist' = Append(hist, PlainFlag(line))
        /\ UNCHANGED <<errors, tailing>>

NextPool == Tick \/ HandlePool

SpecPool == Init /\ [][NextPool]_vars

----------------------------------------------------------------------------
(* The detector on requests that were retried on a second upstream *)

HandleUpstream ==
    \E line \in UpstreamLines : \E sinkOk \in BOOLEAN :
        /\ Len(hist) < MaxLines
        /\ Call(line, sinkOk)
        /\ hist' = Append(hist, PlainFlag(line))
        /\ UNCHANGED <<errors, tailing>>

NextUpstream == HandleUpstream

SpecUpstream == Init /\ [][NextUpstream]_vars

----------------------------------------------------------------------------
(* follow() and main() over a file the proxy writes and logrotate replaces *)

\* faulty variant: the identity of what LOG_PATH names now
stat_of_path(f) == path

\* os.fstat(file.fileno()).st_ino: the inode of the open file itself,
\* whatever LOG_PATH has come to name
fstat_ino(f) == f

\* faulty variant: the file is read from its start
seek_on_open_at_start(c) == 0

\* file.seek(0, os.SEEK_END) after every open
seek_on_open(c) == Len(c)

\* faulty variant: a file that was cut is read on from its new end
offset_after_stat_at_end(size, p) == IF size < p THEN size ELSE p

\* "current_pos = file.tell(); if current_stat.st_size < current_pos:
\* file.seek(0)": the offset readline starts from
offset_after_stat(size, p) == IF size < p THEN 0 ELSE p

\* "with open(filepath)": FileNotFoundError sends follow() to its 5 s wait;
\* else seek to the end and remember the inode
FollowOpen ==
    /\ fpc \in {"open", "waiting"}
    /\ IF path = NoFile
       THEN /\ fpc' = "waiting"
            /\ UNCHANGED <<fd, pos, initial_inode, atOpen>>
       ELSE /\ fd' = path
            /\ pos' = seek_on_open(files[path])
            /\ initial_inode' = fstat_ino(path)
            /\ fpc' = "poll"
            /\ atOpen' = Len(files[path])
    /\ UNCHANGED <<config, detector, clock, cur, out, seenPool, knownPool, lastPost,
                   hist, errors, filesys, yielded, got, newFiles>>

\* one turn of the inner loop: the rotation check, the truncation check,
\* readline, then yield or sleep(delay)
FollowPoll ==
    /\ fpc = "poll"
    /\ IF fstat_ino(fd) # initial_inode
       THEN \* break: the file is closed and opened again
            /\ fpc' = "open"
            /\ fd' = NoFile
            /\ UNCHANGED <<pos, initial_inode, yielded, got>>
       ELSE LET c  == files[fd]
                p  == offset_after_stat(Len(c), pos)
                rl == readline(c, p)
            IN  /\ pos' = rl.end
                /\ IF rl.end > p
                   THEN /\ yielded' = rl.value
                        /\ fpc' = "yield"
                        /\ got' = got \cup {<<fd, k>> : k \in (p + 1)..rl.end}
                   ELSE /\ fpc' = "sleeping"
                        /\ UNCHANGED <<yielded, got>>
                /\ UNCHANGED <<fd, initial_inode>>
    /\ UNCHANGED <<config, detector, clock, cur, out, seenPool, knownPool, lastPost,
                   hist, errors, filesys, newFiles, atOpen>>

\* time.sleep(delay) returns and the inner loop goes round
FollowWake ==
    /\ fpc = "sleeping"
    /\ fpc' = "poll"
    /\ UNCHANGED <<config, detector, clock, cur, out, seenPool, knownPool, lastPost,
                   hist, errors, filesys, fd, pos, initial_inode, yielded, got, newFiles, atOpen>>

\* faulty variant: an exception out of handle_line ends main's loop
main_stops_on_error(raised) == IF raised THEN "done" ELSE "poll"

\* "except Exception as e: print(...)": the for loop goes on to the next line
\* whether handle_line returned or raised
main_resumes(raised) == "poll"

\* main: handle_line(line.strip()), then back into follow()
MainHandle ==
    /\ fpc = "yield"
    /\ \E sinkOk \in BOOLEAN : Call(stripped(yielded), sinkOk)
    /\ fpc' = main_resumes(out'.raised)
    /\ yielded' = NoChunk
    /\ UNCHANGED <<hist, errors, filesys, fd, pos, initial_inode, got, newFiles, atOpen>>

\* file.readline() raises OSError (a failing disk, a stale network mount):
\* the "with" closes the file, "except Exception" prints and sleeps 5 s, and
\* the outer loop opens the path again
FollowFault ==
    /\ fpc = "poll"
    /\ fpc' = "waiting"
    /\ fd' = NoFile
    /\ got' = {}
    /\ newFiles' = {}
    /\ atOpen' = 0
    /\ UNCHANGED <<config, detector, clock, cur, out, seenPool, knownPool, lastPost,
                   hist, errors, filesys, pos, initial_inode, yielded>>

\* the proxy appends one complete line to the file LOG_PATH names
WriteLine ==
    /\ path # NoFile
    /\ Len(files[path]) < MaxFileLen
    /\ \E line \in FollowLines :
          files' = [files EXCEPT ![path] = Append(@, MkChunk(<<line>>, TRUE))]
    /\ UNCHANGED <<config, detector, clock, cur, out, seenPool, knownPool, lastPost,
                   hist, errors, path, inodes, follower, got, newFiles, atOpen>>

\* a new, empty file appears at LOG_PATH: created where there was none, or
\* renamed over the old one, which lives on under follow's open handle
Rotate ==
    /\ inodes < MaxInodes
    /\ inodes' = inodes + 1
    /\ path' = inodes + 1
    /\ newFiles' = IF fd # NoFile THEN newFiles \cup {inodes + 1} ELSE newFiles
    /\ UNCHANGED <<config, detector, clock, cur, out, seenPool, knownPool, lastPost,
                   hist, errors, files, follower, got, atOpen>>

\* the file at LOG_PATH is cut to length 0 (copytruncate)
Truncate ==
    /\ path # NoFile
    /\ files[path] # <<>>
    /\ files' = [files EXCEPT ![path] = <<>>]
    /\ atOpen' = IF fd = path THEN Cut ELSE atOpen
    /\ UNCHANGED <<config, detector, clock, cur, out, seenPool, knownPool, lastPost,
                   hist, errors, path, inodes, follower, got, newFiles>>

\* LOG_PATH is unlinked
Remove ==
    /\ path # NoFile
    /\ path' = NoFile
    /\ UNCHANGED <<config, detector, clock, cur, out, seenPool, knownPool, lastPost,
                   hist, errors, files, inodes, follower, got, newFiles, atOpen>>

InitFollow ==
    /\ MAINTENANCE_MODE = FALSE
    /\ SLACK_WEBHOOK = TRUE
    /\ InitDetector
    /\ NoTailing

TailLog == FollowOpen \/ FollowPoll \/ FollowWake \/ MainHandle

NextFollow == TailLog \/ WriteLine \/ Rotate \/ Truncate \/ Remove

SpecFollow == InitFollow /\ [][NextFollow]_vars

\* a line that is no access-log line is appended to the file LOG_PATH names
WriteNoise ==
    /\ path # NoFile
    /\ Len(files[path]) < MaxFileLen
    /\ \E line \in NoiseLines :
          files' = [files EXCEPT ![path] = Append(@, MkChunk(<<line>>, TRUE))]
    /\ UNCHANGED <<config, detector, clock, cur, out, seenPool, knownPool, lastPost,
                   hist, errors, path, inodes, follower, got, newFiles, atOpen>>

\* follow() and main() over a file of such lines: the detector stands still
NextTail == TailLog \/ WriteNoise \/ Rotate \/ Truncate \/ Remove

SpecTail == InitFollow /\ [][NextTail]_vars

SpecTailFair == SpecTail /\ WF_vars(TailLog)

\* the writer appends the first part of a line, without its newline
WriteFront ==
    /\ path # NoFile
    /\ Len(files[path]) + 2 <= MaxFileLen
    /\ files[path] # <<>> => files[path][Len(files[path])].nl
    /\ \E line \in FollowLines :
          files' = [files EXCEPT ![path] = Append(@, MkChunk(<<Front(line)>>, FALSE))]
    /\ UNCHANGED <<config, detector, clock, cur, out, seenPool, knownPool, lastPost,
                   hist, errors, path, inodes, follower, got, newFiles, atOpen>>

\* and then the rest of it, with the newline
WriteBack ==
    /\ path # NoFile
    /\ files[path] # <<>> /\ ~files[path][Len(files[path])].nl
    /\ \E line \in FollowLines :
          /\ files[path][Len(files[path])].txt = <<Front(line)>>
          /\ files' = [files EXCEPT ![path] = Append(@, MkChunk(<<Back(line)>>, TRUE))]
    /\ UNCHANGED <<config, detector, clock, cur, out, seenPool, knownPool, lastPost,
                   hist, errors, path, inodes, follower, got, newFiles, atOpen>>

\* follow() and main() over a file whose lines are written in two steps
NextPartial == TailLog \/ WriteFront \/ WriteBack \/ Rotate \/ Truncate \/ Remove

SpecPartial == InitFollow /\ [][NextPartial]_vars

\* the proxy logs a request whose status token int() cannot convert
WriteBad ==
    /\ path # NoFile
    /\ Len(files[path]) < MaxFileLen
    /\ \E line \in BadLines :
          files' = [files EXCEPT ![path] = Append(@, MkChunk(<<line>>, TRUE))]
    /\ UNCHANGED <<config, detector, clock, cur, out, seenPool, knownPool, lastPost,
                   hist, errors, path, inodes, follower, got, newFiles, atOpen>>

\* follow() and main() under faults: read errors, and a log whose every line
\* makes handle_line raise
NextFault == TailLog \/ FollowFault \/ WriteBad \/ Rotate \/ Truncate \/ Remove

SpecFault == InitFollow /\ [][NextFault]_vars

\* follow() and main() are one thread that never blocks for good: sleep()
\* returns, and each turn of the loop is taken
SpecFollowFair == SpecFollow /\ WF_vars(TailLog)

----------------------------------------------------------------------------
(* What the claims speak of *)

Handled == cur # <<>>
\* every token LOG_RE needs is in the line
Structured(line) == line.status >= 0 /\ line.pool # "" /\ line.rest
Matched == Handled /\ Structured(cur[1])
Unmatched == Handled /\ ~Structured(cur[1])

Ones(w) == Cardinality({i \in 1..Len(w) : w[i] = 1})
\* the window is long enough and its error share is at or over the threshold
Breaching(w) == Len(w) >= MIN_SAMPLES /\ Ones(w) * 100 >= ERROR_RATE_THRESHOLD * Len(w)

Posted(k) == k \in out.posts
FlipNotices == {"failover_maintenance", "failover_cooldown"}
FlipReported == Posted("failover") \/ out.notices \cap FlipNotices # {}

\* the line handled by the last step is an occurrence of kind k
Triggering(k) ==
    IF k = "failover"
    THEN Matched /\ out.prevPool # None /\ cur[1].pool # out.prevPool
    ELSE Matched /\ Breaching(rolling)

AlertTs(k) == IF k = "failover" THEN last_failover_alert_ts ELSE last_error_rate_alert_ts

\* C1: with maintenance mode off, once an alert of a kind went out at t0, no
\* handle_line call at a time in [t0, t0 + ALERT_COOLDOWN_SEC) posts that kind
\* again, and a triggering line handled at or after t0 + ALERT_COOLDOWN_SEC
\* does post it.
C1_Cooldown ==
    (~MAINTENANCE_MODE /\ Handled) =>
        \A k \in Kinds :
            LET t0 == out.prior[k] IN
            t0 # NoTs =>
                /\ (t0 <= clock /\ clock < t0 + ALERT_COOLDOWN_SEC) => ~Posted(k)
                /\ (clock >= t0 + ALERT_COOLDOWN_SEC /\ Triggering(k)) => Posted(k)

\* a second failover alert after the cooldown, while an error-rate occurrence
\* of the same line is held back by its own cooldown
C1_Witness ==
    /\ ~MAINTENANCE_MODE /\ Handled
    /\ Posted("failover") /\ out.prior["failover"] # NoTs
    /\ "error_rate_cooldown" \in out.notices

\* C2: in maintenance mode post_slack is never called and neither alert
\* timestamp is ever set, whatever the time; a matched line still moves
\* last_seen_pool to its pool and appends its error flag to the window.
C2_Maintenance ==
    MAINTENANCE_MODE =>
        /\ out.posts = {} /\ lastPost = NoPrior
        /\ last_failover_alert_ts = NoTs /\ last_error_rate_alert_ts = NoTs
        /\ Matched =>
              /\ last_seen_pool = cur[1].pool
              /\ rolling # <<>> /\ rolling[Len(rolling)] = PlainFlag(cur[1])

\* a flip and a breach, both suppressed, a cooldown's length after start-up
C2_Witness ==
    /\ MAINTENANCE_MODE /\ Matched /\ clock >= ALERT_COOLDOWN_SEC
    /\ "failover_maintenance" \in out.notices
    /\ "error_rate_maintenance" \in out.notices

\* C4: the window never holds more than WINDOW_SIZE flags, and once
\* WINDOW_SIZE or more matched lines were handled it holds the flags of the
\* last WINDOW_SIZE of them, in arrival order.
C4_Window ==
    /\ Len(rolling) <= WINDOW_SIZE
    /\ Len(hist) >= WINDOW_SIZE =>
          rolling = SubSeq(hist, Len(hist) - WINDOW_SIZE + 1, Len(hist))

\* two flags were evicted, and the window differs from the first WINDOW_SIZE flags
C4_Witness ==
    /\ Len(hist) = WINDOW_SIZE + 2
    /\ rolling # SubSeq(hist, 1, WINDOW_SIZE)
    /\ hist[1] = 1 /\ hist[2] = 0

\* C5: the first matched line only seeds last_seen_pool (no alert, no
\* notice); after it a flip is reported on a matched line iff its pool
\* differs from the previous matched line's, and reported once.
C5_FlipDetection ==
    Matched =>
        /\ out.prevPool = None => (~FlipReported /\ last_seen_pool = cur[1].pool)
        /\ out.prevPool # None => (FlipReported <=> cur[1].pool # out.prevPool)
        /\ Cardinality((out.posts \cap {"failover"}) \cup (out.notices \cap FlipNotices)) <= 1

\* a flip back to the first pool, reported by a suppression notice
C5_Witness ==
    /\ Matched /\ out.prevPool = "green" /\ cur[1].pool = "blue"
    /\ "failover_cooldown" \in out.notices

\* C6: with maintenance mode off, no error_rate alert goes out while fewer
\* than 10 matched lines were recorded; and the matched line that leaves the
\* window at 10 or more flags with the rate at or over the threshold, no
\* error_rate alert having gone out before, posts one.
C6_WarmUp ==
    ~MAINTENANCE_MODE =>
        /\ Len(hist) < MIN_SAMPLES => lastPost["error_rate"] = NoTs
        /\ (Matched /\ Breaching(rolling) /\ out.prior["error_rate"] = NoTs)
              => Posted("error_rate")

\* nine failing lines, then a served one: the alert goes out on the tenth
C6_Witness ==
    /\ ~MAINTENANCE_MODE
    /\ hist = <<1, 1, 1, 1, 1, 1, 1, 1, 1, 0>>
    /\ Posted("error_rate") /\ out.prior["error_rate"] = NoTs

\* C7: whenever the window holds 10 or more flags, the rate handle_line
\* compares with the threshold is (errors in the window) / (window length).
C7_Rate ==
    (Matched /\ Len(rolling) >= MIN_SAMPLES /\ ~out.raised) =>
        /\ out.rate.total > 0
        /\ out.rate.count * Len(rolling) = Ones(rolling) * out.rate.total

\* a full window after an eviction, errors and served requests mixed
C7_Witness ==
    /\ Matched /\ Len(hist) > WINDOW_SIZE /\ Len(rolling) = WINDOW_SIZE
    /\ Ones(rolling) = 3 /\ out.rate.count = 3

\* C8: after handle_line on a matched line last_seen_pool is that line's
\* pool, whether the failover alert went out or was suppressed.
C8_PoolTracked == Matched => last_seen_pool = cur[1].pool

\* a flip whose alert the cooldown suppressed
C8_Witness ==
    /\ Matched /\ "failover_cooldown" \in out.notices
    /\ out.prevPool # cur[1].pool /\ last_seen_pool = cur[1].pool

\* C9: handle_line on a line that does not match changes none of
\* last_seen_pool, the window and the two alert timestamps, and emits nothing.
C9_UnmatchedFrame ==
    [][(cur' # <<>> /\ ~Structured(cur'[1])) =>
          (UNCHANGED detector /\ out'.posts = {} /\ out'.notices = {})]_vars

\* a line that does not match, handled once alerts and a window exist
C9_Witness ==
    /\ Unmatched /\ Len(rolling) >= MIN_SAMPLES
    /\ last_failover_alert_ts # NoTs /\ last_error_rate_alert_ts # NoTs

\* C10: a failing sink call does not end handle_line in an exception: the
\* call completes (pool tracked, flag appended) and the kind's timestamp is
\* set to the time of the call, so the cooldown runs from the failed alert.
C10_SinkFailure ==
    \A k \in out.failed :
        /\ ~out.raised
        /\ Posted(k) /\ AlertTs(k) = clock
        /\ Matched /\ last_seen_pool = cur[1].pool
        /\ rolling # <<>> /\ rolling[Len(rolling)] = PlainFlag(cur[1])

\* the sink failed for a failover alert and for an error-rate alert of one line
C10_Witness == out.failed = Kinds /\ ~out.raised

\* a chunk of a file that replaced the followed one and is still at LOG_PATH
NewFileChunk(i, n) == i \in newFiles /\ path = i /\ n <= Len(files[i])

\* C3: once the followed file was replaced at LOG_PATH by a new file, every
\* line of the new file is eventually yielded (as long as the new file stays
\* in place, not cut).
C3_RotationFollowed ==
    \A i \in 1..MaxInodes : \A n \in 1..MaxFileLen :
        NewFileChunk(i, n) ~> (<<i, n>> \in got \/ ~NewFileChunk(i, n))

\* where follow() and main() can stand; there is no state after the loops
FollowStates == {"open", "waiting", "poll", "sleeping", "yield"}

\* C11: in every reachable state, whatever happened to the file (missing,
\* replaced, cut, removed, unreadable) and whether or not handle_line raised
\* on the last line, follow()/main() stand inside their loops and have a next
\* step to take: the generator never ends and main never leaves its for loop.
C11_NeverTerminates == fpc \in FollowStates /\ ENABLED TailLog

\* handle_line raised on the last line, then a read error closed the file
C11_Witness ==
    /\ out.raised /\ fpc = "waiting"
    /\ fd = NoFile /\ initial_inode # NoFile /\ path # NoFile

\* C12: a matched line whose pool is the placeholder "-" leaves
\* last_seen_pool at the pool known before it and is reported neither by an
\* alert nor by a suppression notice; and a matched line that carries the
\* pool known before it (the latest pool that was a name) is not reported as
\* a flip either, whatever placeholders came in between.
C12_PlaceholderNoFlip ==
    Matched =>
        /\ (cur[1].pool = Placeholder /\ out.known # None)
              => (last_seen_pool = out.known /\ ~FlipReported)
        /\ (cur[1].pool # Placeholder /\ cur[1].pool = out.known) => ~FlipReported

\* the code a request ended with upstream: the last of the codes logged,
\* 0 when none was logged
EffectiveUpstream(u) == IF u = <<>> THEN 0 ELSE u[Len(u)]
\* the flag of a request by its status and the code it ended with upstream
EffectiveFlag(line) ==
    IF Is5xx(line.status) \/ Is5xx(EffectiveUpstream(line.upstream_status))
    THEN 1 ELSE 0
\* the flag the last step appended to the window
Appended == rolling[Len(rolling)]

\* C13: a matched line with status 200 whose upstream_status is a list of
\* codes is recorded in the window by the last code of the list: as an error
\* when the list ends in a 5xx code, as a non-error when it ends otherwise.
C13_LastUpstreamCode ==
    (Matched /\ cur[1].status = 200 /\ Len(cur[1].upstream_status) > 1) =>
        /\ rolling # <<>>
        /\ Appended = IF Is5xx(cur[1].upstream_status[Len(cur[1].upstream_status)])
                      THEN 1 ELSE 0

\* C14: the flag appended for a matched line is 1 iff its status or its
\* effective upstream code is in [500,600); with no upstream code (absent or
\* "-") and a status outside [500,600) the flag is 0.
C14_ErrorFlag ==
    Matched =>
        /\ rolling # <<>>
        /\ Appended = EffectiveFlag(cur[1])
        /\ out.flag = EffectiveFlag(cur[1])
        /\ (cur[1].upstream_status = <<>> /\ ~Is5xx(cur[1].status)) => Appended = 0

\* the step opens the path
Opens == fd = NoFile /\ fd' # NoFile

\* C15: the very first open of the path starts at end-of-file, and every
\* later open that finds another file at the path than the one followed
\* before (the path was rotated) starts reading that file at offset 0, so
\* that the lines already in it are read.
C15_ReopenAtStart ==
    [][/\ (Opens /\ initial_inode = NoFile) => pos' = Len(files[fd'])
       /\ (Opens /\ initial_inode # NoFile /\ fd' # initial_inode) => pos' = 0]_vars

\* C16: a followed file whose path was removed is not followed for ever: the
\* follower comes to close it (and waits for the path to exist again).
C16_RemovedPathLeft ==
    \A i \in 1..MaxInodes :
        (fd = i /\ path = NoFile) ~> (fd # i)

\* C17: a poll that finds the followed file shorter than the read offset
\* keeps the same open file and reads from offset 0: it yields the file's
\* first line (and leaves the offset behind it), or finds the file empty and
\* sleeps at offset 0.
C17_Truncation ==
    [][(fpc = "poll" /\ fpc' # "poll" /\ Len(files[fd]) < pos) =>
          /\ fd' = fd /\ initial_inode' = initial_inode
          /\ IF files[fd] = <<>>
             THEN pos' = 0 /\ fpc' = "sleeping"
             ELSE /\ fpc' = "yield" /\ pos' >= 1
                  /\ yielded'.txt = text_of(files[fd], 1, pos')
                  /\ \A k \in 1..(pos' - 1) : ~files[fd][k].nl]_vars

\* the second line of the file was read, the file was cut and written
\* again, and its new first line has just been yielded
C17_Witness ==
    /\ fpc = "yield" /\ pos = 1 /\ Len(files[fd]) = 1
    /\ <<fd, 2>> \in got

\* C18: the file the follower opened and that was not cut since: none of the
\* lines that were in it at the open is ever yielded, and every line appended
\* to it after the open is eventually yielded.
C18_FirstOpenAtEnd ==
    /\ [](atOpen # Cut => \A n \in 1..atOpen : <<fd, n>> \notin got)
    /\ \A i \in 1..MaxInodes : \A n \in 1..MaxFileLen :
          (fd = i /\ atOpen # Cut /\ atOpen < n /\ n <= Len(files[i]))
              ~> (<<i, n>> \in got \/ atOpen = Cut)

\* the file held one line at the open; that line was skipped and the line
\* appended after the open was yielded
C18_Witness ==
    /\ fd # NoFile /\ atOpen = 1
    /\ <<fd, 1>> \notin got /\ <<fd, 2>> \in got

\* C19: a step changes last_failover_alert_ts only if it is a handle_line
\* call that posts a failover alert, and last_error_rate_alert_ts only if it
\* is one that posts an error_rate alert; the new value is the time of the
\* call.  So a suppressed occurrence leaves its kind's cooldown running as it
\* was, and an alert of one kind leaves the other kind's timestamp alone.
C19_TimestampFrame ==
    [][\A k \in Kinds :
          LET before == IF k = "failover" THEN last_failover_alert_ts
                        ELSE last_error_rate_alert_ts
              after  == IF k = "failover" THEN last_failover_alert_ts'
                        ELSE last_error_rate_alert_ts'
          IN  after # before => (cur' # <<>> /\ k \in out'.posts /\ after = clock')]_vars

\* one line, a cooldown's length short of the last failover alert: its flip
\* is suppressed and its error-rate breach is posted; the failover timestamp
\* stays at the earlier alert
C19_Witness ==
    /\ "failover_cooldown" \in out.notices /\ Posted("error_rate")
    /\ last_failover_alert_ts = out.prior["failover"]
    /\ last_failover_alert_ts < clock /\ last_error_rate_alert_ts = clock

\* C20: what follow() yields is a complete line: it ends in a newline, and
\* when it lies behind the first chunk appended since the open (of a file not
\* cut since) it is one whole written line, not the second part of a line
\* whose first part was yielded before.
C20_CompleteLines ==
    fpc = "yield" =>
        /\ yielded.nl
        /\ (atOpen # Cut /\ pos - 1 > atOpen) => stripped(yielded) \in FollowLines

====
